---- MODULE Spec2Model ----
(***************************************************************************)
(* A model of asyncio.go: futures, tasks driven by iter.Pull coroutines,   *)
(* the timed callback heap, the event loop, Mutex, Queue and Wait.         *)
(*                                                                         *)
(* Everything that runs on the loop thread is synchronous and re-entrant:  *)
(* SetResult invokes the done-callbacks, a done-callback may step a task,  *)
(* the task's coroutine may complete further futures, and so on.  The      *)
(* operators below therefore take a program state s (a record of all the   *)
(* variables, and of the calls still to be made) and return the state      *)
(* after their own statements; Run makes the nested calls in call order,   *)
(* and an action commits the state in which the whole call has returned.   *)
(*                                                                         *)
(* Conventions: 0 is nil (a nil pointer, the zero value); the error "nil"  *)
(* is the nil error, "Canceled" is context.Canceled, "DeadlineExceeded"    *)
(* is context.DeadlineExceeded, "E1" and "E2" are user errors.  Objects    *)
(* (futures, callbacks, contexts, tasks) are numbered in allocation order  *)
(* and live in sequences indexed by that number.  Go slices and heap       *)
(* indices are 0-based, sequences here are 1-based: queue[i] in the source *)
(* is heap[i + 1] here, and Callback.index keeps the source's 0-based      *)
(* value.                                                                  *)
(***************************************************************************)
EXTENDS Integers, Sequences, FiniteSets, TLC

VARIABLES
    fut,        \* Future objects: done, result, err, callbacks
    waits,      \* the captured variables of each Wait call: done, futErr, ...
    cbk,        \* Callback objects: when, callback (kind, arg), index, queue
    heap,       \* EventLoop.pendingCallbacks (a binary heap of Callback ids)
    inbox,      \* EventLoop.callbacksFromThread (a channel of Callback ids)
    ctx,        \* context objects: parent, err, cause, deadline
    task,       \* Task objects and the position of their coroutine
    stack,      \* EventLoop.currentTasks
    mutex,      \* Mutex.unlockFut
    queue,      \* Queue: data, futs
    now,        \* the clock read by time.Now
    run,        \* the position of EventLoop.Run and what it returned
    threads,    \* calls made so far by other threads
    panicked,   \* the process died of a panic
    firsts,     \* the captured variables of each GetFirstResult call
    fired,      \* history: the Callbacks of the heap invoked so far, in order
    depth,      \* history: the longest currentTasks so far
    reg,        \* history: the user callbacks registered so far
    log,        \* history: the user callbacks invoked so far
    order,      \* history: the futures in the order they were completed
    op,         \* history: the number of top-level calls made so far
    lastOp      \* history: the last top-level call and its arguments

vars == <<fut, waits, cbk, heap, inbox, ctx, task, stack, mutex, queue, now,
          run, threads, panicked, firsts, fired, depth, reg, log, order, op, lastOp>>

\* The whole program state as one record, for the operators that compute a call.
S == [fut |-> fut, waits |-> waits, cbk |-> cbk, heap |-> heap, inbox |-> inbox,
      ctx |-> ctx, task |-> task, stack |-> stack, mutex |-> mutex,
      queue |-> queue, now |-> now, run |-> run, threads |-> threads,
      panicked |-> panicked, firsts |-> firsts, fired |-> fired, depth |-> depth,
      reg |-> reg, log |-> log, order |-> order,
      op |-> op, lastOp |-> lastOp, todo |-> <<>>]

\* The state after a handler returned s.
Commit(s) ==
    /\ fut' = s.fut /\ waits' = s.waits /\ cbk' = s.cbk /\ heap' = s.heap
    /\ inbox' = s.inbox /\ ctx' = s.ctx /\ task' = s.task /\ stack' = s.stack
    /\ mutex' = s.mutex /\ queue' = s.queue /\ now' = s.now /\ run' = s.run
    /\ threads' = s.threads /\ panicked' = s.panicked /\ firsts' = s.firsts
    /\ fired' = s.fired /\ depth' = s.depth /\ reg' = s.reg
    /\ log' = s.log /\ order' = s.order /\ op' = s.op /\ lastOp' = s.lastOp

\* ------------------------------------------------------------------ bounds

MaxFut == 2          \* futures a test of the future layer creates with NewFuture
MaxCallbacks == 2    \* user callbacks a test registers
MaxOps == 4          \* top-level calls a test of the future layer makes
MaxQueueOps == 5     \* top-level calls a test of the queue makes

\* What the callers of SetResult and Cancel pass: a result with no error or a
\* failure, no cause or a cause of the caller's.
Outcomes == {<<1, "nil">>, <<0, "E1">>}
Causes == {"nil", "E1"}

\* ----------------------------------------------------------------- helpers

Last(q) == q[Len(q)]

\* One more top-level call, with what it was.
Calling(s, what) == [s EXCEPT !.op = @ + 1, !.lastOp = what]

\* -------------------------------------------------------------- the machine
\* s.todo is the call stack of the loop thread, as the list of the calls still to
\* be made, the next one first.  A call is a frame: k names the function (or the
\* closure, for a callback), a and b are its object arguments, r and e a result
\* and an error, q a captured list.  The operator of a function takes the state
\* in which it is called and returns the state in which it has done what it does
\* itself, with the calls it makes (and what it does after them) pushed on
\* s.todo.  Run makes the calls until none is left.

Frame(k, a, b, r, e) == [k |-> k, a |-> a, b |-> b, r |-> r, e |-> e, q |-> <<>>]

Push(s, frames) == [s EXCEPT !.todo = frames \o @]

Panic(s) == [s EXCEPT !.panicked = TRUE]

\* ------------------------------------------------------------------ Future

\* NewFuture: the new future is number Len(s.fut) + 1.
NewFuture(s) ==
    [s EXCEPT !.fut = Append(@, [done |-> FALSE, result |-> 0, err |-> "nil",
                                 callbacks |-> <<>>])]

HasResult(s, f) == s.fut[f].done

\* The call callback(result, err) of a callback of a future.
InvokeFrame(cb, result, err) == Frame(cb.kind, cb.arg, cb.id, result, err)

\* The call f.SetResult(result, err).
SetResultFrame(f, result, err) == Frame("SetResult", f, 0, result, err)

\* The call f.Cancel(err).
CancelFrame(f, err) == Frame("Cancel", f, 0, 0, err)

\* Future.AddResultCallback that appends also when the future is done.
AddResultCallbackNeverSync(s, f, cb) ==
    [s EXCEPT !.fut[f].callbacks = Append(@, cb)]

\* Future.AddResultCallback (AddDoneCallback wraps it): a done future invokes the
\* callback at once, a pending one appends it.
AddResultCallback(s, f, cb) ==
    IF HasResult(s, f)
    THEN Push(s, <<InvokeFrame(cb, s.fut[f].result, s.fut[f].err)>>)
    ELSE [s EXCEPT !.fut[f].callbacks = Append(@, cb)]

\* The loop of SetResult over the callbacks it ranges over, from the i-th on.
Callbacks(s, f, i, result, err, cbs) ==
    IF i > Len(cbs) THEN s
    ELSE Push(s, <<InvokeFrame(cbs[i], result, err),
                   [Frame("callbacks", f, i + 1, result, err) EXCEPT !.q = cbs]>>)

\* Future.SetResult with its HasResult guard around the callbacks only.
SetResultOverwrites(s, f, result, err) ==
    LET s1 == [s EXCEPT !.fut[f].result = result, !.fut[f].err = err,
                        !.fut[f].done = TRUE]
    IN  IF HasResult(s, f) THEN s1
        ELSE Callbacks([s1 EXCEPT !.order = Append(@, [fut |-> f, op |-> s.op])],
                       f, 1, result, err, s1.fut[f].callbacks)

\* Future.SetResult.
SetResult(s, f, result, err) ==
    IF HasResult(s, f) THEN s
    ELSE LET s1 == [s EXCEPT !.fut[f].result = result, !.fut[f].err = err,
                             !.fut[f].done = TRUE,
                             !.order = Append(@, [fut |-> f, op |-> s.op])]
         IN  Callbacks(s1, f, 1, result, err, s1.fut[f].callbacks)

\* Future.Result, called from outside: what it returns is kept in lastOp.  The
\* ctx field of a Future is never set, so f.ctx.Err() of a pending future calls a
\* method of a nil interface: a panic.
Result(s, f) ==
    IF HasResult(s, f)
    THEN [s EXCEPT !.lastOp.result = s.fut[f].result, !.lastOp.err = s.fut[f].err]
    ELSE Panic(s)

\* Future.Cancel
Cancel(s, f, err) == SetResult(s, f, 0, IF err = "nil" THEN "Canceled" ELSE err)

\* errors.Is(err, context.Canceled)
IsCanceled(err) == err = "Canceled"

\* Future.Shield.  The shield is the new future, or f itself when f is done; both
\* callbacks are added to pending futures.
Shield(s, f) ==
    IF HasResult(s, f) THEN s
    ELSE LET s1 == NewFuture(s)
             sh == Len(s1.fut)
             s2 == AddResultCallback(s1, f, [kind |-> "shieldFwd", arg |-> sh, id |-> 0])
         IN  AddResultCallback(s2, sh, [kind |-> "shieldBack", arg |-> f, id |-> 0])

\* The callback Shield adds to the source: it completes the shield.
ShieldForward(s, sh, result, err) == Push(s, <<SetResultFrame(sh, result, err)>>)

\* The callback Shield adds to the shield: it completes the source.
ShieldBack(s, f, result, err) ==
    IF ~IsCanceled(err) THEN Push(s, <<SetResultFrame(f, result, err)>>) ELSE s

\* Wait up to its loop: the captured variables and the future returned.
Wait(s, mode, futs) ==
    LET s1 == NewFuture(s)
        s2 == [s1 EXCEPT !.waits = Append(@, [mode |-> mode, futs |-> futs, done |-> 0,
                                              futErr |-> "nil", waitFut |-> Len(s1.fut)])]
    IN  Push(s2, <<Frame("waitAdd", Len(s2.waits), 1, 0, "nil")>>)

\* The loop of Wait, from the i-th future on: AddDoneCallback, then the rest.
WaitAdd(s, w, i) ==
    IF i > Len(s.waits[w].futs) THEN s
    ELSE AddResultCallback(Push(s, <<Frame("waitAdd", w, i + 1, 0, "nil")>>),
                           s.waits[w].futs[i], [kind |-> "wait", arg |-> w, id |-> 0])

\* The callback Wait adds to each future.
WaitCallback(s, w, err) ==
    LET s1 == [s EXCEPT !.waits[w].done = @ + 1]
        wr == s1.waits[w]
    IN  IF err # "nil"
        THEN LET s2 == [s1 EXCEPT !.waits[w].futErr = err]
             IN  IF wr.mode # "WaitAll"
                 THEN Push(s2, <<SetResultFrame(wr.waitFut, 0, err)>>)
                 ELSE s2
        ELSE IF wr.done >= Len(wr.futs) \/ wr.mode = "WaitFirstResult"
             THEN Push(s1, <<SetResultFrame(wr.waitFut, 0, wr.futErr)>>)
             ELSE s1

\* A callback of a user of the library, given to AddResultCallback.  It records
\* that it ran; "userAdd" then adds another callback to the future it is on and
\* "userSet" sets that future's result again.
Register(s, f, kind) ==
    LET s1 == [s EXCEPT !.reg = Append(@, [fut |-> f, pending |-> ~HasResult(s, f),
                                           op |-> s.op])]
    IN  AddResultCallback(s1, f, [kind |-> kind, arg |-> f, id |-> Len(s1.reg)])

UserCallback(s, kind, f, id, result, err) ==
    LET s1 == [s EXCEPT !.log = Append(@, [id |-> id, result |-> result,
                                           err |-> err, op |-> s.op])]
    IN  CASE kind = "userAdd" -> Register(s1, f, "userLog")
          [] kind = "userSet" -> Push(s1, <<SetResultFrame(f, 2, "E2")>>)
          [] OTHER -> s1

\* -------------------------------------------------------------------- Queue

\* Queue.Get: the new future is appended to futs also when it got an item.
QueueGet(s) ==
    LET s1 == NewFuture(s)
        f == Len(s1.fut)
        after == Frame("queueAppend", f, 0, 0, "nil")
    IN  IF Len(s1.queue.data) > 0
        THEN Push([s1 EXCEPT !.queue.data = Tail(@)],
                  <<SetResultFrame(f, Head(s1.queue.data), "nil"), after>>)
        ELSE Push(s1, <<after>>)

\* q.futs = append(q.futs, fut), the end of Queue.Get.
QueueAppend(s, f) == [s EXCEPT !.queue.futs = Append(@, f)]

\* The loop of Queue.Push that gives an item to a done future too.
QueuePairNoSkip(s) ==
    IF Len(s.queue.futs) > 0 /\ Len(s.queue.data) > 0
    THEN Push([s EXCEPT !.queue.futs = Tail(@), !.queue.data = Tail(@)],
              <<SetResultFrame(Head(s.queue.futs), Head(s.queue.data), "nil"),
                Frame("queuePair", 0, 0, 0, "nil")>>)
    ELSE s

\* The loop of Queue.Push: one iteration, then the rest.
QueuePair(s) ==
    IF Len(s.queue.futs) > 0 /\ Len(s.queue.data) > 0
    THEN IF HasResult(s, Head(s.queue.futs))
         THEN Push([s EXCEPT !.queue.futs = Tail(@)], <<Frame("queuePair", 0, 0, 0, "nil")>>)
         ELSE Push([s EXCEPT !.queue.futs = Tail(@), !.queue.data = Tail(@)],
                   <<SetResultFrame(Head(s.queue.futs), Head(s.queue.data), "nil"),
                     Frame("queuePair", 0, 0, 0, "nil")>>)
    ELSE s

\* Queue.Push.
QueuePush(s, item) ==
    Push([s EXCEPT !.queue.data = Append(@, item)], <<Frame("queuePair", 0, 0, 0, "nil")>>)

\* ----------------------------------------------------------------- context
\* A context is cancelled once, with an error (ctx.Err) and a cause
\* (context.Cause); cancelling it cancels the contexts derived from it that are
\* not cancelled yet, with the same error and cause.  A context derived from a
\* cancelled one is born cancelled.

CtxErr(s, c) == s.ctx[c].err

Cause(s, c) == s.ctx[c].cause

RECURSIVE DerivedFrom(_, _, _)
DerivedFrom(s, d, c) ==
    \/ d = c
    \/ s.ctx[d].parent # 0 /\ DerivedFrom(s, s.ctx[d].parent, c)

CtxCancel(s, c, err, cause) ==
    IF CtxErr(s, c) # "nil" THEN s
    ELSE [s EXCEPT !.ctx = [d \in 1..Len(s.ctx) |->
                               IF DerivedFrom(s, d, c) /\ s.ctx[d].err = "nil"
                               THEN [s.ctx[d] EXCEPT !.err = err, !.cause = cause]
                               ELSE s.ctx[d]]]

\* A context.CancelCauseFunc called with err.
CancelCause(s, c, err) ==
    CtxCancel(s, c, "Canceled", IF err = "nil" THEN "Canceled" ELSE err)

\* context.WithCancelCause(parent): the new context is number Len(s.ctx) + 1.
WithCancelCause(s, parent) ==
    [s EXCEPT !.ctx = Append(@, [parent |-> parent, err |-> s.ctx[parent].err,
                                 cause |-> s.ctx[parent].cause,
                                 deadline |-> s.ctx[parent].deadline])]

\* ------------------------------------------------------------ callbackQueue
\* container/heap over callbackQueue.  i and j are the source's 0-based indices.

At(s, i) == s.heap[i + 1]

Less(s, i, j) == s.cbk[At(s, i)].when < s.cbk[At(s, j)].when

\* A Swap that exchanges the elements and leaves their index fields alone.
SwapKeepsIndex(s, i, j) ==
    [s EXCEPT !.heap[i + 1] = At(s, j), !.heap[j + 1] = At(s, i)]

Swap(s, i, j) ==
    LET a == At(s, i)
        b == At(s, j)
    IN  [s EXCEPT !.cbk[a].index = j, !.cbk[b].index = i,
                  !.heap[i + 1] = b, !.heap[j + 1] = a]

\* heap.up
RECURSIVE Up(_, _)
Up(s, j) ==
    LET i == (j - 1) \div 2
    IN  IF j = 0 \/ i = j \/ ~Less(s, j, i) THEN s
        ELSE Up(Swap(s, i, j), i)

\* heap.down; the source's result, i > i0, is Down(s, i0, n) # s.
RECURSIVE Down(_, _, _)
Down(s, i, n) ==
    LET j1 == 2 * i + 1
        j == IF j1 + 1 < n /\ Less(s, j1 + 1, j1) THEN j1 + 1 ELSE j1
    IN  IF j1 >= n THEN s
        ELSE IF ~Less(s, j, i) THEN s
        ELSE Down(Swap(s, i, j), j, n)

\* callbackQueue.Push
QueuePushCallback(s, c) ==
    [s EXCEPT !.cbk[c].index = Len(s.heap), !.cbk[c].queue = TRUE,
              !.heap = Append(@, c)]

\* callbackQueue.Pop
QueuePopCallback(s) ==
    LET c == Last(s.heap)
    IN  [s EXCEPT !.heap = SubSeq(@, 1, Len(@) - 1),
                  !.cbk[c].index = -1, !.cbk[c].queue = FALSE]

\* callbackQueue.Add: heap.Push
Add(s, c) ==
    LET s1 == QueuePushCallback(s, c)
    IN  Up(s1, Len(s1.heap) - 1)

\* heap.Pop
HeapPop(s) ==
    LET n == Len(s.heap) - 1
        s1 == Swap(s, 0, n)
    IN  QueuePopCallback(Down(s1, 0, n))

\* heap.Remove
HeapRemove(s, i) ==
    LET n == Len(s.heap) - 1
        s1 == IF n # i
              THEN LET s2 == Swap(s, i, n)
                       s3 == Down(s2, i, n)
                   IN  IF s3 = s2 THEN Up(s2, i) ELSE s3
              ELSE s
    IN  QueuePopCallback(s1)

\* What Callback.Cancel returns.
CallbackCancelled(s, c) == s.cbk[c].queue

\* A Callback.Cancel that removes nothing.
CallbackCancelKeeps(s, c) == s

\* callbackQueue.Remove, called by Callback.Cancel: there is one queue, so
\* callback.queue is that queue or nil.
CallbackCancel(s, c) ==
    IF ~s.cbk[c].queue THEN s ELSE HeapRemove(s, s.cbk[c].index)

\* callbackQueue.TimeUntilFirst
TimeUntilFirst(s) == s.cbk[At(s, 0)].when - s.now

\* NewCallback: the new callback is number Len(s.cbk) + 1.
NewCallback(s, delay, kind, arg, err) ==
    [s EXCEPT !.cbk = Append(@, [when |-> s.now + delay, kind |-> kind, arg |-> arg,
                                 err |-> err, index |-> -2, queue |-> FALSE])]

\* EventLoop.ScheduleCallback; the handle is Len(s.cbk) of the result.
ScheduleCallback(s, delay, kind, arg) ==
    LET s1 == NewCallback(s, delay, kind, arg, "nil")
    IN  Add(s1, Len(s1.cbk))

\* EventLoop.RunCallback
RunCallback(s, kind, arg) == ScheduleCallback(s, 0, kind, arg)

\* -------------------------------------------------------------------- Mutex

\* Mutex.Unlock, as the calls it makes.
Unlock(s) ==
    IF s.mutex.unlockFut # 0 THEN <<SetResultFrame(s.mutex.unlockFut, 0, "nil")>> ELSE <<>>

\* --------------------------------------------------------------------- Task
\* A coroutine is a list of instructions, the calls a user's function makes:
\*   spawn    SpawnTask(ctx, coro) with the coroutine's own ctx; coro is Write
\*            (d = 0) or a coroutine that sleeps twice (d = 1)
\*   cancel   Task.Cancel(err) on task number d
\*   lock     err := mutex.Lock(ctx); if err != nil { return err }; defer mutex.Unlock()
\*   sleep    err := Sleep(ctx, d); if err != nil { return err }
\*   nap      _ = Sleep(ctx, d)
\*   await    _, err := t.Await(ctx) for task number d; if err != nil { return err }
\*   first    r, err := GetFirstResult(ctx, coros...); if err != nil { return err }
\*            with the coroutines FirstCoroutines(d)
\*   ret      return d, err
\* task[t].coro is the state of the iter.Pull iterator that runs the coroutine:
\* "new" (next never called), "run" (inside next), "susp" (inside yield), "done".
\* task[t].out and task[t].ok are what the last next returned or will return.

Ins(o, d, err) == [op |-> o, d |-> d, err |-> err]

\* The coroutine of AsyncStream.Write: it takes the stream's lock, waits once for
\* the file to be ready (a timer stands for the readiness event) and returns.
WriteCoroutine == <<Ins("lock", 0, "nil"), Ins("sleep", 2, "nil"), Ins("ret", 0, "nil")>>

\* A coroutine that carries on after a Sleep that failed, as cleanup code does.
NapCoroutine == <<Ins("nap", 2, "nil"), Ins("nap", 1, "nil"), Ins("ret", 0, "nil")>>

\* SpawnTask: the new task is number Len(s.task) + 1.  The coroutine does not run:
\* iter.Pull runs nothing before the first next.
SpawnTask(s, parent, prog) ==
    LET s1 == WithCancelCause(s, parent)
        s2 == NewFuture(s1)
        s3 == [s2 EXCEPT !.task = Append(@, [ctx |-> Len(s1.ctx), resultFut |-> Len(s2.fut),
                                             pendingFut |-> 0, coro |-> "new", out |-> 0,
                                             ok |-> FALSE, prog |-> prog, pc |-> 1,
                                             locked |-> FALSE, steps |-> 0, call |-> 0])]
        t == Len(s3.task)
        s4 == AddResultCallback(s3, s3.task[t].resultFut, [kind |-> "taskDone", arg |-> t, id |-> 0])
    IN  RunCallback(s4, "start", t)

\* The done-callback SpawnTask adds to the result future: pendingFut.Cancel(nil),
\* then task.cancel(err).
TaskDone(s, t, err) ==
    Push(s, (IF s.task[t].pendingFut # 0
             THEN <<CancelFrame(s.task[t].pendingFut, "nil")>> ELSE <<>>)
            \o <<Frame("cancelCause", s.task[t].ctx, 0, 0, err)>>)

\* Task.Cancel
TaskCancel(s, t, err) == Push(s, <<CancelFrame(s.task[t].resultFut, err)>>)

\* The iterator function ends, after the coroutine returned: next returns
\* (nil, false).
IteratorEnds(s, t) ==
    [s EXCEPT !.task[t].coro = "done", !.task[t].out = 0, !.task[t].ok = FALSE]

\* The GetFirstResult call that the coroutine of task t is inside, if any, returns
\* (result, err) to it.  History: what it returned, and whether the result
\* futures of the tasks it spawned were all done then.
FirstReturns(s, t, result, err) ==
    LET g == s.task[t].call
    IN  IF g = 0 THEN s
        ELSE [s EXCEPT !.task[t].call = 0,
                       !.firsts[g].returned = TRUE,
                       !.firsts[g].result = result,
                       !.firsts[g].err = err,
                       !.firsts[g].pending =
                           {u \in 1..Len(s.task) :
                               /\ \E i \in 1..Len(s.firsts[g].tasks) : s.firsts[g].tasks[i] = u
                               /\ ~HasResult(s, s.task[u].resultFut)}]

\* The coroutine returns (result, err): its deferred Unlock runs, then
\* task.resultFut.SetResult(coro(ctx)), and the iterator function ends.  An error
\* that an Await inside GetFirstResult returned is what GetFirstResult returns.
Return(s, t, result, err) ==
    Push([FirstReturns(s, t, 0, err) EXCEPT !.task[t].locked = FALSE],
         (IF s.task[t].locked THEN Unlock(s) ELSE <<>>)
         \o <<SetResultFrame(s.task[t].resultFut, result, err),
              Frame("returned", t, 0, 0, "nil")>>)

\* An Await of the coroutine returned err: the coroutine returns it, or carries on
\* where it ignores it.
AwaitFails(s, t, err) ==
    IF s.task[t].prog[s.task[t].pc].op = "nap"
    THEN Push([s EXCEPT !.task[t].pc = @ + 1], <<Frame("exec", t, 0, 0, "nil")>>)
    ELSE Return(s, t, 0, err)

\* return task.Err() of task.yielder, an error: the Await of the coroutine fails
\* with it.
ReturnTaskErr(s, t) == AwaitFails(s, t, s.fut[s.task[t].resultFut].err)

\* Future.Await up to the yield of task.yielder: EventLoop.Yield hands the future
\* to the yielder of the current task, which cancels it if the task's context is
\* cancelled and suspends the coroutine on it otherwise.
AwaitIn(s, t, childCtx, f) ==
    LET c == s.task[t].ctx
        rf == s.task[t].resultFut
    IN  IF Last(s.stack) # t THEN Panic(s)
        ELSE IF Cause(s, c) # "nil"
        THEN Push(s, <<CancelFrame(rf, Cause(s, c)), CancelFrame(f, Cause(s, c)),
                       Frame("returnTaskErr", t, 0, 0, "nil")>>)
        ELSE IF CtxErr(s, childCtx) # "nil"
        THEN Push(s, <<CancelFrame(f, CtxErr(s, childCtx)),
                       Frame("awaitFails", t, 0, 0, CtxErr(s, childCtx))>>)
        ELSE [s EXCEPT !.task[t].coro = "susp", !.task[t].out = f, !.task[t].ok = TRUE]

\* f.Await(ctx) with the context of the coroutine itself.
Await(s, t, f) == AwaitIn(s, t, s.task[t].ctx, f)

\* Mutex.Lock, one turn of its loop.
MutexLock(s, t) ==
    IF s.mutex.unlockFut = 0 \/ HasResult(s, s.mutex.unlockFut)
    THEN LET s1 == NewFuture(s)
         IN  Push([s1 EXCEPT !.mutex.unlockFut = Len(s1.fut), !.task[t].locked = TRUE,
                             !.task[t].pc = @ + 1], <<Frame("exec", t, 0, 0, "nil")>>)
    ELSE Await(s, t, s.mutex.unlockFut)

\* Sleep
Sleep(s, t, d) ==
    LET s1 == NewFuture(s)
        f == Len(s1.fut)
        s2 == ScheduleCallback(s1, d, "sleepFire", f)
        s3 == AddResultCallback(s2, f, [kind |-> "sleepCancel", arg |-> Len(s2.cbk), id |-> 0])
    IN  Await(s3, t, f)

\* The coroutines given to GetFirstResult: a quick one, a slow one and one that
\* fails at once; or two that fail, the later one last.
FirstCoroutines(k) ==
    IF k = 1
    THEN << <<Ins("sleep", 1, "nil"), Ins("ret", 1, "nil")>>,
            <<Ins("sleep", 2, "nil"), Ins("ret", 2, "nil")>>,
            <<Ins("ret", 0, "E1")>> >>
    ELSE << <<Ins("sleep", 1, "nil"), Ins("ret", 0, "E2")>>,
            <<Ins("ret", 0, "E1")>> >>

\* The callback GetFirstResult adds to waitFut, without its loop.
FirstDoneOnlyContext(s, g) == CancelCause(s, s.firsts[g].ctx, "nil")

\* The callback GetFirstResult adds to waitFut: cancel(), then t.Cancel(nil) for
\* the tasks spawned.
FirstDone(s, g) ==
    Push(CancelCause(s, s.firsts[g].ctx, "nil"),
         [i \in 1..Len(s.firsts[g].tasks) |->
             CancelFrame(s.task[s.firsts[g].tasks[i]].resultFut, "nil")])

\* The callback GetFirstResult adds to the result future of each task.
FirstResult(s, g, result, err) ==
    LET s1 == [s EXCEPT !.firsts[g].done = @ + 1]
    IN  IF err = "nil" THEN Push(s1, <<SetResultFrame(s1.firsts[g].waitFut, result, "nil")>>)
        ELSE IF s1.firsts[g].done >= s1.firsts[g].n
        THEN Push(s1, <<CancelFrame(s1.firsts[g].waitFut, err)>>)
        ELSE s1

\* The loop of GetFirstResult, from the i-th coroutine on.  The task is new and its
\* result future pending, so the callback is appended.
RECURSIVE FirstSpawn(_, _, _, _)
FirstSpawn(s, g, coros, i) ==
    IF i > Len(coros) THEN s
    ELSE LET s1 == SpawnTask(s, s.firsts[g].ctx, coros[i])
             u == Len(s1.task)
             s2 == [s1 EXCEPT !.firsts[g].tasks = Append(@, u)]
         IN  FirstSpawn(AddResultCallback(s2, s2.task[u].resultFut,
                                          [kind |-> "firstResult", arg |-> g, id |-> 0]),
                        g, coros, i + 1)

\* GetFirstResult, called by the coroutine of task t.
GetFirstResult(s, t, coros) ==
    LET s1 == WithCancelCause(s, s.task[t].ctx)
        c == Len(s1.ctx)
        s2 == NewFuture(s1)
        waitFut == Len(s2.fut)
        s3 == [s2 EXCEPT !.firsts = Append(@, [ctx |-> c, tasks |-> <<>>, done |-> 0,
                                               waitFut |-> waitFut, n |-> Len(coros),
                                               returned |-> FALSE, result |-> 0,
                                               err |-> "nil", pending |-> {}]),
                         !.task[t].call = Len(s2.firsts) + 1]
        g == Len(s3.firsts)
        s4 == AddResultCallback(s3, waitFut, [kind |-> "firstDone", arg |-> g, id |-> 0])
    IN  AwaitIn(FirstSpawn(s4, g, coros, 1), t, c, waitFut)

\* The coroutine of task t runs the instruction at pc.
Exec(s, t) ==
    LET ins == s.task[t].prog[s.task[t].pc]
        s0 == [s EXCEPT !.task[t].steps = @ + 1]
        next == <<Frame("exec", t, 0, 0, "nil")>>
    IN  CASE ins.op = "spawn" ->
               Push([SpawnTask(s0, s0.task[t].ctx,
                               IF ins.d = 1 THEN NapCoroutine ELSE WriteCoroutine)
                         EXCEPT !.task[t].pc = @ + 1], next)
          [] ins.op = "cancel" ->
               TaskCancel(Push([s0 EXCEPT !.task[t].pc = @ + 1], next), ins.d, ins.err)
          [] ins.op = "lock" -> MutexLock(s0, t)
          [] ins.op \in {"sleep", "nap"} -> Sleep(s0, t, ins.d)
          [] ins.op = "await" -> Await(s0, t, s0.task[ins.d].resultFut)
          [] ins.op = "first" -> GetFirstResult(s0, t, FirstCoroutines(ins.d))
          [] ins.op = "ret" -> Return(s0, t, ins.d, ins.err)

\* An Await of the coroutine returned no error: Lock tries again, Sleep returns.
AwaitOk(s, t) ==
    Push(IF s.task[t].prog[s.task[t].pc].op = "lock" THEN s
         ELSE [FirstReturns(s, t, s.fut[s.task[t].out].result, "nil")
                   EXCEPT !.task[t].pc = @ + 1],
         <<Frame("exec", t, 0, 0, "nil")>>)

\* yield returned true: the rest of task.yielder, then Future.Await's f.Result().
\* Result() of a future that is not done reads f.ctx, which is nil: a panic.
Resumed(s, t) ==
    LET c == s.task[t].ctx
        rf == s.task[t].resultFut
        f == s.task[t].out
    IN  IF Cause(s, c) # "nil"
        THEN Push(s, <<CancelFrame(rf, Cause(s, c)), Frame("returnTaskErr", t, 0, 0, "nil")>>)
        ELSE IF ~HasResult(s, f) THEN Panic(s)
        ELSE IF s.fut[f].err # "nil" THEN AwaitFails(s, t, s.fut[f].err)
        ELSE AwaitOk(s, t)

\* The next of iter.Pull: a finished iterator returns (nil, false), a running one
\* panics ("next called again before yield").
PullNext(s, t) ==
    CASE s.task[t].coro = "done" -> [s EXCEPT !.task[t].out = 0, !.task[t].ok = FALSE]
      [] s.task[t].coro = "run" -> Panic(s)
      [] s.task[t].coro = "new" ->
           Push([s EXCEPT !.task[t].coro = "run"], <<Frame("exec", t, 0, 0, "nil")>>)
      [] s.task[t].coro = "susp" ->
           Push([s EXCEPT !.task[t].coro = "run"], <<Frame("resumed", t, 0, 0, "nil")>>)

\* Task.Step up to the return of next, with the first half of EventLoop.withTask.
Step(s, t) ==
    PullNext(Push([s EXCEPT !.stack = Append(@, t),
                            !.depth = IF Len(s.stack) + 1 > @ THEN Len(s.stack) + 1 ELSE @],
                  <<[Frame("stepped", t, 0, 0, "nil") EXCEPT !.q = s.stack]>>), t)

\* A Task.Step whose withTask leaves the task on the stack.
SteppedKeepsTask(s, t, oldTasks) ==
    LET out == s.task[t].out
        s1 == [s EXCEPT !.task[t].pendingFut = out]
    IN  IF s.task[t].ok
        THEN IF out # 0
             THEN AddResultCallback(s1, out, [kind |-> "step", arg |-> t, id |-> 0])
             ELSE RunCallback(s1, "step", t)
        ELSE [s1 EXCEPT !.task[t].pendingFut = 0]

\* Task.Step from the return of next: the second half of EventLoop.withTask, then
\* the callback that takes the next step.  The stop() of a finished iterator does
\* nothing.
Stepped(s, t, oldTasks) ==
    IF Last(s.stack) # t THEN Panic(s)
    ELSE LET out == s.task[t].out
             s1 == [s EXCEPT !.stack = oldTasks, !.task[t].pendingFut = out]
         IN  IF s.task[t].ok
             THEN IF out # 0
                  THEN AddResultCallback(s1, out, [kind |-> "step", arg |-> t, id |-> 0])
                  ELSE RunCallback(s1, "step", t)
             ELSE [s1 EXCEPT !.task[t].pendingFut = 0]

\* The callback SpawnTask schedules, without its tests.
StartAlways(s, t) == Push(s, <<Frame("step", t, 0, 0, "nil")>>)

\* The callback SpawnTask schedules: the first step, unless the task or its
\* context is cancelled already.
Start(s, t) ==
    IF HasResult(s, s.task[t].resultFut) THEN s
    ELSE IF Cause(s, s.task[t].ctx) # "nil"
    THEN Push(s, <<CancelFrame(s.task[t].resultFut, Cause(s, s.task[t].ctx))>>)
    ELSE Push(s, <<Frame("step", t, 0, 0, "nil")>>)

\* A done-callback of the main task that does nothing.
MainDoneIgnored(s, err) == s

\* The done-callback Run adds to the result future of the main task.
MainDone(s, err) ==
    IF err # "nil" THEN CancelCause(s, s.run.ctx, err) ELSE s

\* ------------------------------------------------------------ making the calls

\* The call fr is made in state s.
Do(s, fr) ==
    CASE fr.k = "SetResult" -> SetResult(s, fr.a, fr.r, fr.e)
      [] fr.k = "Cancel" -> Cancel(s, fr.a, fr.e)
      [] fr.k = "callbacks" -> Callbacks(s, fr.a, fr.b, fr.r, fr.e, fr.q)
      [] fr.k \in {"userLog", "userAdd", "userSet"} ->
           UserCallback(s, fr.k, fr.a, fr.b, fr.r, fr.e)
      [] fr.k = "shieldFwd" -> ShieldForward(s, fr.a, fr.r, fr.e)
      [] fr.k = "shieldBack" -> ShieldBack(s, fr.a, fr.r, fr.e)
      [] fr.k = "wait" -> WaitCallback(s, fr.a, fr.e)
      [] fr.k = "waitAdd" -> WaitAdd(s, fr.a, fr.b)
      [] fr.k = "queuePair" -> QueuePair(s)
      [] fr.k = "queueAppend" -> QueueAppend(s, fr.a)
      [] fr.k = "taskDone" -> TaskDone(s, fr.a, fr.e)
      [] fr.k = "cancelCause" -> CancelCause(s, fr.a, fr.e)
      [] fr.k = "step" -> Step(s, fr.a)
      [] fr.k = "stepped" -> Stepped(s, fr.a, fr.q)
      [] fr.k = "exec" -> Exec(s, fr.a)
      [] fr.k = "resumed" -> Resumed(s, fr.a)
      [] fr.k = "awaitFails" -> AwaitFails(s, fr.a, fr.e)
      [] fr.k = "firstDone" -> FirstDone(s, fr.a)
      [] fr.k = "firstResult" -> FirstResult(s, fr.a, fr.r, fr.e)
      [] fr.k = "returnTaskErr" -> ReturnTaskErr(s, fr.a)
      [] fr.k = "returned" -> IteratorEnds(s, fr.a)
      [] fr.k = "sleepCancel" -> CallbackCancel(s, fr.a)
      [] fr.k = "mainDone" -> MainDone(s, fr.e)

\* The calls of s.todo are made, and the calls they make, until all have returned
\* or one has panicked.
RECURSIVE Run(_)
Run(s) ==
    IF s.panicked \/ s.todo = <<>> THEN [s EXCEPT !.todo = <<>>]
    ELSE Run(Do([s EXCEPT !.todo = Tail(@)], Head(s.todo)))

\* Calling the function of a Callback of the heap.
Fire(s, c) ==
    LET cb == s.cbk[c]
    IN  CASE cb.kind = "start" -> Start(s, cb.arg)
          [] cb.kind = "step" -> Step(s, cb.arg)
          [] cb.kind = "sleepFire" -> Push(s, <<SetResultFrame(cb.arg, 0, "nil")>>)
          [] cb.kind = "cancelTask" -> TaskCancel(s, cb.arg, cb.err)
          [] cb.kind = "user" -> s

\* callbackQueue.RunFirst
RunFirst(s) ==
    LET head == At(s, 0)
    IN  Run(Fire([HeapPop(s) EXCEPT !.fired = Append(@, head)], head))

\* ---------------------------------------------------------- the future layer
\* A test of the future layer: it creates futures, registers callbacks and
\* completes and cancels futures from outside any loop.

NoOp == [kind |-> "none", f |-> 0, result |-> 0, err |-> "nil"]

InitCommon ==
    /\ fut = <<>> /\ waits = <<>> /\ cbk = <<>> /\ heap = <<>> /\ inbox = <<>>
    /\ task = <<>> /\ stack = <<>>
    /\ mutex = [unlockFut |-> 0]
    /\ queue = [data |-> <<>>, futs |-> <<>>]
    /\ now = 0
    /\ threads = 0
    /\ panicked = FALSE
    /\ firsts = <<>> /\ fired = <<>> /\ depth = 0
    /\ reg = <<>> /\ log = <<>> /\ order = <<>> /\ op = 0 /\ lastOp = NoOp

NoRun == [pc |-> "none", ctx |-> 0, main |-> 0, ret |-> "nil", timeout |-> 0, until |-> 0]

InitFuture ==
    /\ InitCommon
    /\ ctx = <<>>
    /\ run = NoRun

Futures == 1..Len(fut)

FutNew ==
    /\ ~panicked
    /\ Len(fut) < MaxFut
    /\ Commit(NewFuture(S))

FutSetResult ==
    /\ ~panicked
    /\ op < MaxOps
    /\ \E f \in Futures, r \in Outcomes :
         Commit(Run(SetResult(Calling(S, [kind |-> "SetResult", f |-> f, result |-> r[1],
                                     err |-> r[2]]), f, r[1], r[2])))

FutCancel ==
    /\ ~panicked
    /\ op < MaxOps
    /\ \E f \in Futures, e \in Causes :
         Commit(Run(Cancel(Calling(S, [kind |-> "Cancel", f |-> f, result |-> 0, err |-> e]),
                       f, e)))

FutAddCallback ==
    /\ ~panicked
    /\ op < MaxOps
    /\ Len(reg) < MaxCallbacks
    /\ \E f \in Futures, k \in {"userLog", "userAdd", "userSet"} :
         Commit(Run(Register(Calling(S, [kind |-> "AddResultCallback", f |-> f, result |-> 0,
                                     err |-> "nil"]), f, k)))

FutShield ==
    /\ ~panicked
    /\ op < MaxOps
    /\ Len(fut) < MaxFut
    /\ \E f \in Futures :
         Commit(Run(Shield(Calling(S, [kind |-> "Shield", f |-> f, result |-> 0, err |-> "nil"]), f)))

FutResult ==
    /\ ~panicked
    /\ op < MaxOps
    /\ \E f \in Futures :
         Commit(Run(Result(Calling(S, [kind |-> "Result", f |-> f, result |-> 0, err |-> "nil"]),
                           f)))

NextFuture ==
    \/ FutNew
    \/ FutResult
    \/ FutSetResult
    \/ FutCancel
    \/ FutAddCallback
    \/ FutShield

SpecFuture == InitFuture /\ [][NextFuture]_vars

\* ------------------------------------------------------------ a test of Wait

WaitModes == {"WaitFirstResult", "WaitFirstError", "WaitAll"}

\* The futures a test completes itself: all but the ones Wait returned.
Inputs == {f \in Futures : \A w \in 1..Len(waits) : waits[w].waitFut # f}

WaitCall ==
    /\ Len(waits) = 0
    /\ \E mode \in WaitModes, n \in 1..MaxFut :
         \E futs \in [1..n -> Futures] :
           Commit(Run(Wait(Calling(S, [kind |-> "Wait", f |-> 0, result |-> 0, err |-> "nil"]),
                       mode, futs)))

WaitSetResult ==
    /\ \E f \in Inputs, r \in Outcomes :
         /\ ~fut[f].done
         /\ Commit(Run(SetResult(Calling(S, [kind |-> "SetResult", f |-> f, result |-> r[1],
                                         err |-> r[2]]), f, r[1], r[2])))

WaitCancel ==
    /\ \E f \in Inputs, e \in Causes :
         /\ ~fut[f].done
         /\ Commit(Run(Cancel(Calling(S, [kind |-> "Cancel", f |-> f, result |-> 0, err |-> e]),
                          f, e)))

NextWait ==
    \/ FutNew
    \/ WaitCall
    \/ WaitSetResult
    \/ WaitCancel

SpecWait == InitFuture /\ [][NextWait]_vars

\* ----------------------------------------------------------- a test of Queue
\* The items pushed are the numbers of the Push calls, so that they are distinct
\* and grow in push order.

QGet ==
    /\ op < MaxQueueOps
    /\ Commit(Run(QueueGet(Calling(S, [kind |-> "Get", f |-> 0, result |-> 0, err |-> "nil"]))))

QPush ==
    /\ op < MaxQueueOps
    /\ Commit(Run(QueuePush(Calling(S, [kind |-> "Push", f |-> 0, result |-> op + 1,
                                    err |-> "nil"]), op + 1)))

QCancel ==
    /\ op < MaxQueueOps
    /\ \E f \in Futures, e \in Causes :
         /\ ~fut[f].done
         /\ Commit(Run(Cancel(Calling(S, [kind |-> "Cancel", f |-> f, result |-> 0, err |-> e]),
                          f, e)))

NextQueue ==
    \/ QGet
    \/ QPush
    \/ QCancel

SpecQueue == InitFuture /\ [][NextQueue]_vars

\* ------------------------------------------------------ the callback queue
\* A test of callbackQueue: Callbacks with functions that do nothing are added
\* with any delay, the first is run and any Callback is cancelled, in any order.
\* The clock stands still, so the delay of a Callback is its fire time.

MaxTimers == 6   \* Callbacks created
MaxDelay == 2    \* the longest delay

HeapAdd ==
    /\ Len(cbk) < MaxTimers
    /\ \E d \in 0..MaxDelay : Commit(ScheduleCallback(S, d, "user", 0))

HeapRunFirst ==
    /\ Len(heap) > 0
    /\ Commit(RunFirst(S))

HeapCancel ==
    \E c \in 1..Len(cbk) : Commit(CallbackCancel(S, c))

NextHeap ==
    \/ HeapAdd
    \/ HeapRunFirst
    \/ HeapCancel

SpecHeap == InitFuture /\ [][NextHeap]_vars

\* ------------------------------------------------------------ EventLoop.Run
\* Run is followed through its positions: "init" (not called), "head" (the test
\* of the for loop), "drain" (addCallbacksFromThread), "ready"
\* (runReadyCallbacks), "check" (the tests after them), "wait" (inside
\* poller.Wait), "exit" (after the loop) and "returned".  Other threads cancel
\* the caller's context and call RunCallbackThreadsafe between these steps, and
\* time passes between them.  No program calls WaitForCallbacks, so
\* callbacksDoneFut stays nil, and the poller does not fail.

MaxTime == 3         \* the clock stops there
MaxThreadCalls == 1  \* calls of RunCallbackThreadsafe by other threads
InboxCap == 100      \* the capacity of callbacksFromThread
HardCap == 30        \* the timeout Run starts from, in seconds
LongSleep == 40      \* a Sleep longer than that

\* The main coroutines tried.  Tasks are numbered in spawn order: the main task is
\* 1, the tasks it spawns are 2, 3, ...
MainCoroutines ==
    {<<Ins("spawn", 0, "nil"), Ins("spawn", 0, "nil"), Ins("ret", 0, e)>> :
        e \in {"nil", "E1"}}
    \cup
    {<<Ins("spawn", 0, "nil"), Ins("spawn", 0, "nil"), Ins("cancel", 2, c),
       Ins("ret", 0, "nil")>> : c \in Causes}
    \cup
    {<<Ins("spawn", 0, "nil"), Ins("spawn", 0, "nil"), Ins("sleep", 1, "nil"),
       Ins("spawn", 0, "nil"), Ins("sleep", 2, "nil"), Ins("ret", 0, "nil")>>}
    \cup
    {<<Ins("first", k, "nil"), Ins("ret", 0, "nil")>> : k \in {1, 2}}
    \cup
    {<<Ins("sleep", LongSleep, "nil"), Ins("ret", 0, "nil")>>}
    \cup
    {<<Ins("spawn", 1, "nil"), Ins("sleep", 3, "nil"), Ins("ret", 0, "nil")>>}
    \cup
    {<<Ins("spawn", 0, "nil"), Ins("spawn", 0, "nil"), Ins("sleep", 3, "nil"),
       Ins("await", 2, "nil"), Ins("ret", 0, "nil")>>}

\* The caller's context is context 1; it may carry a deadline (0: none).
Init ==
    /\ InitCommon
    /\ \E d \in {0, 2} :
         ctx = <<[parent |-> 0, err |-> "nil", cause |-> "nil", deadline |-> d]>>
    /\ run = [pc |-> "init", ctx |-> 0, main |-> 0, ret |-> "nil", timeout |-> 0,
              until |-> 0]

Alive == ~panicked /\ run.pc \notin {"none", "init", "returned"}

\* Run up to its for loop: the context, the main task and its done-callback.
RunStart ==
    /\ run.pc = "init"
    /\ \E main \in MainCoroutines :
         LET s1 == WithCancelCause(S, 1)
             c == Len(s1.ctx)
             s2 == SpawnTask(s1, c, main)
             m == Len(s2.task)
             s3 == [s2 EXCEPT !.run.ctx = c, !.run.main = m, !.run.pc = "head"]
         IN  Commit(Run(AddResultCallback(s3, s3.task[m].resultFut,
                                          [kind |-> "mainDone", arg |-> 0, id |-> 0])))

\* for ctx.Err() == nil
LoopHead ==
    /\ Alive /\ run.pc = "head"
    /\ run' = [run EXCEPT !.pc = IF ctx[run.ctx].err = "nil" THEN "drain" ELSE "exit"]
    /\ UNCHANGED <<fut, waits, cbk, heap, inbox, ctx, task, stack, mutex, queue, now,
                   threads, panicked, firsts, fired, depth, reg, log, order, op, lastOp>>

\* addCallbacksFromThread: one receive from the channel, or its return.
Drain ==
    /\ Alive /\ run.pc = "drain"
    /\ IF ctx[run.ctx].err = "nil" /\ Len(inbox) > 0
       THEN Commit(Add([S EXCEPT !.inbox = Tail(@)], Head(inbox)))
       ELSE Commit([S EXCEPT !.run.pc = "ready"])

\* runReadyCallbacks: one RunFirst, or its return.
RunReady ==
    /\ Alive /\ run.pc = "ready"
    /\ IF ctx[run.ctx].err = "nil" /\ Len(heap) > 0 /\ TimeUntilFirst(S) <= 0
       THEN Commit(RunFirst(S))
       ELSE Commit([S EXCEPT !.run.pc = "check"])

\* The timeout Run passes to poller.Wait.
Timeout(s) ==
    LET t1 == IF Len(s.heap) > 0 THEN TimeUntilFirst(s) ELSE HardCap
        d == s.ctx[s.run.ctx].deadline
    IN  IF d # 0 /\ d - s.now < t1 THEN d - s.now ELSE t1

\* The tests after runReadyCallbacks, up to the call of poller.Wait.
Check ==
    /\ Alive /\ run.pc = "check"
    /\ IF \/ ctx[run.ctx].err # "nil"
          \/ fut[task[run.main].resultFut].done /\ Len(heap) = 0
       THEN Commit([S EXCEPT !.run.pc = "exit"])
       ELSE Commit([S EXCEPT !.run.pc = "wait", !.run.timeout = Timeout(S),
                             !.run.until = now + Timeout(S)])

\* poller.Wait returns: the timeout elapsed, a wake-up was posted, or for no
\* reason.
WaitReturns ==
    /\ Alive /\ run.pc = "wait"
    /\ Commit([S EXCEPT !.run.pc = "head"])

\* return context.Cause(ctx), then the deferred poller.Close() and cancel(nil).
RunReturns ==
    /\ Alive /\ run.pc = "exit"
    /\ Commit(CancelCause([S EXCEPT !.run.pc = "returned",
                                    !.run.ret = ctx[run.ctx].cause], run.ctx, "nil"))

\* Time passes; inside poller.Wait, no further than the timeout.
Tick ==
    /\ Alive /\ now < MaxTime
    /\ run.pc = "wait" => now < run.until
    /\ Commit([S EXCEPT !.now = @ + 1])

\* Another thread cancels the caller's context.
ContextCancelled ==
    /\ Alive /\ ctx[1].err = "nil"
    /\ Commit(CtxCancel(S, 1, "Canceled", "Canceled"))

\* The deadline of the caller's context passes.
DeadlineExceeded ==
    /\ Alive /\ ctx[1].err = "nil"
    /\ ctx[1].deadline # 0 /\ now >= ctx[1].deadline
    /\ Commit(CtxCancel(S, 1, "DeadlineExceeded", "DeadlineExceeded"))

\* Another thread calls RunCallbackThreadsafe with a function that cancels a
\* task the main coroutine spawned.
ThreadCancelsTask ==
    /\ Alive /\ threads < MaxThreadCalls /\ Len(inbox) < InboxCap
    /\ \E t \in 2..Len(task), e \in Causes :
         LET s1 == NewCallback([S EXCEPT !.threads = @ + 1], 0, "cancelTask", t, e)
         IN  Commit([s1 EXCEPT !.inbox = Append(@, Len(s1.cbk))])

Next ==
    \/ RunStart
    \/ LoopHead
    \/ Drain
    \/ RunReady
    \/ Check
    \/ WaitReturns
    \/ RunReturns
    \/ Tick
    \/ ContextCancelled
    \/ DeadlineExceeded
    \/ ThreadCancelsTask

Spec == Init /\ [][Next]_vars

\* ------------------------------------------------------------------ claims

\* What Cancel stores for a cause: the cause, or context.Canceled for none.
CauseGiven(e) == IF e = "nil" THEN "Canceled" ELSE e

\* The last call was a SetResult or a Cancel of a future that was pending.
Completing ==
    /\ op' = op + 1
    /\ lastOp'.kind \in {"SetResult", "Cancel"}
    /\ ~fut[lastOp'.f].done

\* The places in the log where the user callback id was invoked.
Invocations(l, id) == {i \in 1..Len(l) : l[i].id = id}

\* C2: Future single assignment.  A SetResult or Cancel of a pending future leaves
\* it done with exactly the value and error of that call (for Cancel: the zero
\* value and the cause, context.Canceled for no cause), whatever its callbacks
\* do; and no call changes a future that is done: its value, error and callback
\* list stay, and none of the callbacks registered on it while pending runs again.
FutureSingleAssignment ==
    [][/\ Completing =>
            /\ fut'[lastOp'.f].done
            /\ fut'[lastOp'.f].result = lastOp'.result
            /\ fut'[lastOp'.f].err = IF lastOp'.kind = "Cancel"
                                     THEN CauseGiven(lastOp'.err) ELSE lastOp'.err
       /\ \A f \in 1..Len(fut) :
            fut[f].done =>
                /\ fut'[f] = fut[f]
                /\ \A id \in 1..Len(reg) :
                     reg[id].fut = f /\ reg[id].pending =>
                         Invocations(log', id) = Invocations(log, id)]_vars

\* C2 witness: a future cancelled with one cause was then cancelled with another
\* and has a callback that was registered while it was pending.
SecondCancelSeen ==
    /\ lastOp.kind = "Cancel"
    /\ fut[lastOp.f].done
    /\ fut[lastOp.f].err # CauseGiven(lastOp.err)
    /\ \E id \in 1..Len(reg) : reg[id].fut = lastOp.f /\ reg[id].pending

\* The call in which future f was completed.
CompletedIn(f) == LET i == CHOOSE i \in 1..Len(order) : order[i].fut = f IN order[i].op

\* C3: Done-callback delivery.  A callback added to a done future has run exactly
\* once, inside the call that added it, with the future's value and error; a
\* callback added to a pending future has not run while the future is pending and
\* has run exactly once, inside the call that completed the future, when it is
\* done; callbacks added to one future while it was pending ran in the order in
\* which they were added.  Callbacks that add callbacks or set the result of their
\* own future are among the callbacks.
CallbackDelivery ==
    /\ \A id \in 1..Len(reg) :
         LET r == reg[id]
             at == Invocations(log, id)
         IN  /\ ~r.pending =>
                    /\ Cardinality(at) = 1
                    /\ \A i \in at : log[i].op = r.op
             /\ r.pending /\ ~fut[r.fut].done => at = {}
             /\ r.pending /\ fut[r.fut].done =>
                    /\ Cardinality(at) = 1
                    /\ \A i \in at : log[i].op = CompletedIn(r.fut)
             /\ \A i \in at : log[i].result = fut[r.fut].result /\ log[i].err = fut[r.fut].err
    /\ \A id1, id2 \in 1..Len(reg) :
         /\ id1 < id2 /\ reg[id1].fut = reg[id2].fut
         /\ reg[id1].pending /\ reg[id2].pending
         => \A i \in Invocations(log, id1), j \in Invocations(log, id2) : i < j

\* C3 witness: two callbacks added to one pending future have run, one of them a
\* callback that sets the result of its own future again.
TwoCallbacksDelivered ==
    \E id1, id2 \in 1..Len(reg) :
        /\ id1 < id2 /\ reg[id1].fut = reg[id2].fut
        /\ reg[id1].pending /\ reg[id2].pending
        /\ Invocations(log, id1) # {} /\ Invocations(log, id2) # {}
        /\ \E c \in 1..Len(fut[reg[id1].fut].callbacks) :
             fut[reg[id1].fut].callbacks[c].kind = "userSet"

\* The pairs <<f, sh>> with sh = f.Shield() taken while f was pending.
Shields ==
    {p \in (1..Len(fut)) \X (1..Len(fut)) :
        \E c \in 1..Len(fut[p[2]].callbacks) :
            fut[p[2]].callbacks[c] = [kind |-> "shieldBack", arg |-> p[1], id |-> 0]}

\* C4: Shield.  For sh = f.Shield() with f pending: (1) a call that completes f
\* while sh is pending completes sh with the value and error of f; (2) a Cancel
\* of sh, with no cause or with a cause, leaves f pending.
ShieldMirrorsAndProtects ==
    [][\A p \in Shields :
         /\ ~fut[p[1]].done /\ fut'[p[1]].done /\ ~fut[p[2]].done =>
                /\ fut'[p[2]].done
                /\ fut'[p[2]].result = fut'[p[1]].result
                /\ fut'[p[2]].err = fut'[p[1]].err
         /\ op' = op + 1 /\ lastOp'.kind = "Cancel" /\ lastOp'.f = p[2] /\ ~fut[p[1]].done =>
                ~fut'[p[1]].done]_vars

\* The error of the last of the futures futs to have completed with an error.
LastError(futs) ==
    LET failed == {i \in 1..Len(order) :
                      /\ \E k \in 1..Len(futs) : futs[k] = order[i].fut
                      /\ fut[order[i].fut].err # "nil"}
    IN  IF failed = {} THEN "nil"
        ELSE fut[order[CHOOSE i \in failed : \A j \in failed : j <= i].fut].err

\* C10: Wait(WaitAll, f1..fn), n >= 1.  The returned future is pending while some
\* fi is pending and done once every fi is done, and its error is then the error
\* of the last fi that completed with an error, nil if none did.
WaitAllCompletes ==
    \A w \in 1..Len(waits) :
        waits[w].mode = "WaitAll" =>
            LET wf == waits[w].waitFut
                all == \A k \in 1..Len(waits[w].futs) : fut[waits[w].futs[k]].done
            IN  /\ fut[wf].done <=> all
                /\ fut[wf].done => fut[wf].err = LastError(waits[w].futs)

\* The futures that are pending, and the oldest of them.
Pending == {f \in 1..Len(fut) : ~fut[f].done}
Oldest(fs) == CHOOSE f \in fs : \A g \in fs : f <= g

\* The futures that were given an item.
Served == {f \in 1..Len(fut) : fut[f].done /\ fut[f].err = "nil"}

\* C7: Queue pairing.  A Push with a pending Get future gives its item to the
\* oldest pending one and to no other future; a Push without one appends the item
\* to the items kept; a Get takes the oldest item kept, if any.  So items are
\* handed out in push order, each to one future, and an item is kept only while
\* no Get future is pending.  Cancelled Get futures are passed over.
QueuePairing ==
    /\ [](/\ queue.data # <<>> => Pending = {}
          /\ \A f, g \in Served : f < g => fut[f].result < fut[g].result
          /\ \A f \in Served : \A i \in 1..Len(queue.data) : fut[f].result < queue.data[i]
          /\ \A i, j \in 1..Len(queue.data) : i < j => queue.data[i] < queue.data[j])
    /\ [][/\ op' = op + 1 /\ lastOp'.kind = "Push" =>
               IF Pending # {}
               THEN /\ fut'[Oldest(Pending)].done
                    /\ fut'[Oldest(Pending)].result = lastOp'.result
                    /\ fut'[Oldest(Pending)].err = "nil"
                    /\ \A f \in 1..Len(fut) : f # Oldest(Pending) => fut'[f] = fut[f]
                    /\ queue'.data = queue.data
               ELSE /\ fut' = fut
                    /\ queue'.data = Append(queue.data, lastOp'.result)
          /\ op' = op + 1 /\ lastOp'.kind = "Get" =>
               /\ Len(fut') = Len(fut) + 1
               /\ \A f \in 1..Len(fut) : fut'[f] = fut[f]
               /\ IF queue.data # <<>>
                  THEN /\ fut'[Len(fut')].done
                       /\ fut'[Len(fut')].result = Head(queue.data)
                       /\ fut'[Len(fut')].err = "nil"
                       /\ queue'.data = Tail(queue.data)
                  ELSE /\ ~fut'[Len(fut')].done
                       /\ queue'.data = queue.data]_vars

\* C7 witness: a Push gave its item to the second Get future, the first one
\* having been cancelled.
PushPassedCancelled ==
    /\ lastOp.kind = "Push"
    /\ \E f, g \in 1..Len(fut) :
         /\ f < g
         /\ fut[f].done /\ fut[f].err # "nil"
         /\ fut[g].done /\ fut[g].err = "nil" /\ fut[g].result = lastOp.result

\* C8: Queue steady state.  After every Get and every Push, the items kept or the
\* list of waiting futures is empty.
QueueOneListEmpty ==
    Len(queue.data) = 0 \/ Len(queue.futs) = 0

\* The tasks, and the tasks that hold the mutex: Lock returned nil to them and
\* their deferred Unlock has not run.
Tasks == 1..Len(task)
Holders == {t \in Tasks : task[t].locked}

\* C1: Mutex mutual exclusion.  At most one task is between a successful return
\* of Mutex.Lock and its own Unlock, also when tasks waiting in Lock are
\* cancelled.
MutualExclusion == Cardinality(Holders) <= 1

\* Run has returned.
RunReturned == run.pc = "returned"

\* C5: when Run returns, the result future of every task spawned on the loop is
\* done.
TasksDoneAtReturn ==
    RunReturned => \A t \in Tasks : fut[task[t].resultFut].done

\* C6: when Run returns, the callback heap is empty and the channel of callbacks
\* from other threads holds none.
NothingQueuedAtReturn ==
    RunReturned => heap = <<>> /\ inbox = <<>>

\* The loop has dispatched the start callback of task t: it was popped off the
\* heap.
Dispatched(c, t) ==
    \E h \in 1..Len(c) : c[h].kind = "start" /\ c[h].arg = t /\ c[h].index = -1

\* The causes the main coroutine gave when it cancelled task t.
CancelledWith(t) ==
    {CauseGiven(task[1].prog[i].err) : i \in {j \in 1..Len(task[1].prog) :
        task[1].prog[j].op = "cancel" /\ task[1].prog[j].d = t /\ j < task[1].pc}}

\* C9: Deferred start.  No instruction of a coroutine has run before the loop
\* dispatched the start callback of its task.  A task whose result future was done
\* or whose context was cancelled when the start callback was dispatched never
\* runs an instruction, and its result future is done from that dispatch on, with
\* the error it had or else the cause of the context; for a task the main
\* coroutine cancelled right after spawning it that error is the cause given,
\* context.Canceled for none.
DeferredStart ==
    /\ [](\A t \in Tasks :
            /\ task[t].steps > 0 => Dispatched(cbk, t)
            /\ Dispatched(cbk, t) /\ task[t].coro = "new" =>
                  /\ task[t].steps = 0
                  /\ fut[task[t].resultFut].done
                  /\ \A e \in CancelledWith(t) : fut[task[t].resultFut].err = e)
    /\ [][\A t \in Tasks :
            LET rf == task[t].resultFut
                cause == ctx[task[t].ctx].cause
            IN  /\ ~Dispatched(cbk, t) /\ Dispatched(cbk', t) /\ (fut[rf].done \/ cause # "nil") =>
                     /\ task'[t].coro = "new"
                     /\ task'[t].steps = 0
                     /\ fut'[rf].done
                     /\ fut'[rf].err = IF fut[rf].done THEN fut[rf].err ELSE cause
                /\ Dispatched(cbk, t) /\ task[t].coro = "new" => task'[t] = task[t]]_vars

\* C9 witness: the start callbacks of two tasks were dispatched without their
\* coroutines running, one task cancelled by the main coroutine with a cause of
\* its own, the other because its context was cancelled.
StartSkipped ==
    \E t, u \in Tasks :
        /\ Dispatched(cbk, t) /\ task[t].coro = "new"
        /\ CancelledWith(t) = {"E1"} /\ fut[task[t].resultFut].err = "E1"
        /\ Dispatched(cbk, u) /\ task[u].coro = "new" /\ CancelledWith(u) = {}
        /\ fut[task[u].resultFut].done

\* The tasks a GetFirstResult call spawned, the ones among them that finished
\* without error, and the place of a done future in the order of completion.
FirstTasks(g) == {firsts[g].tasks[i] : i \in 1..Len(firsts[g].tasks)}
FirstWon(g) == {u \in FirstTasks(g) : fut[task[u].resultFut].done /\ fut[task[u].resultFut].err = "nil"}
CompletedAt(f) == CHOOSE i \in 1..Len(order) : order[i].fut = f

\* C11: GetFirstResult.  When it has returned: the result futures of the tasks it
\* spawned were all done at that moment; if it returned no error, it returned the
\* result of the first of its coroutines to finish without error, and every other
\* task of its is done with an error; if it returned an error, none of its
\* coroutines finished without error and the error is that of the task that was
\* the last to be done.
FirstResultReturned ==
    \A g \in 1..Len(firsts) :
        firsts[g].returned =>
            /\ firsts[g].pending = {}
            /\ firsts[g].err = "nil" =>
                 \E u \in FirstWon(g) :
                    /\ firsts[g].result = fut[task[u].resultFut].result
                    /\ \A v \in FirstWon(g) :
                         CompletedAt(task[u].resultFut) <= CompletedAt(task[v].resultFut)
                    /\ \A v \in FirstTasks(g) \ {u} : fut[task[v].resultFut].err # "nil"
            /\ firsts[g].err # "nil" =>
                 /\ FirstWon(g) = {}
                 /\ \E u \in FirstTasks(g) :
                      /\ firsts[g].err = fut[task[u].resultFut].err
                      /\ \A v \in FirstTasks(g) :
                           CompletedAt(task[v].resultFut) <= CompletedAt(task[u].resultFut)

\* C11 witness: GetFirstResult returned the result of its quick coroutine, and its
\* slow one, which had started, is cancelled.
FirstResultWon ==
    \E g \in 1..Len(firsts) :
        /\ firsts[g].returned /\ firsts[g].err = "nil" /\ firsts[g].result = 1
        /\ \E v \in FirstTasks(g) :
             task[v].steps > 0 /\ fut[task[v].resultFut].err = "Canceled"

\* The loop invokes Callback c of the heap in this step.
Fires(c) == fired' = Append(fired, c)

\* C12: Task cancellation propagates its cause.  When a task suspended on a
\* pending future F is cancelled with Task.Cancel(E), its result future is done
\* with E and F is done with E, both with context.Canceled when E is nil.
CancelPropagatesCause ==
    [][\A c \in 1..Len(cbk) :
         Fires(c) /\ cbk[c].kind = "cancelTask" =>
            LET t == cbk[c].arg
                rf == task[t].resultFut
                F == task[t].pendingFut
            IN  task[t].coro = "susp" /\ ~fut[rf].done /\ F # 0 /\ ~fut[F].done =>
                    /\ fut'[rf].done /\ fut'[rf].err = CauseGiven(cbk[c].err)
                    /\ fut'[F].done /\ fut'[F].err = CauseGiven(cbk[c].err)]_vars

\* C13: Result() of a future that is not done returns the zero value and an error
\* that is not nil, does not crash, and leaves the future as it is.
ResultOfPending ==
    [][op' = op + 1 /\ lastOp'.kind = "Result" /\ ~fut[lastOp'.f].done =>
           /\ ~panicked'
           /\ lastOp'.result = 0 /\ lastOp'.err # "nil"
           /\ fut' = fut]_vars

\* Task t is suspended inside Sleep(ctx, d), and the deadline of ctx is earlier
\* than the time its timer is due.
SleepsBeyondDeadline(t) ==
    /\ task[t].coro = "susp"
    /\ task[t].prog[task[t].pc].op = "sleep"
    /\ ~fut[task[t].out].done
    /\ ctx[task[t].ctx].deadline # 0
    /\ \E i \in 1..Len(fut[task[t].out].callbacks) :
         /\ fut[task[t].out].callbacks[i].kind = "sleepCancel"
         /\ ctx[task[t].ctx].deadline < cbk[fut[task[t].out].callbacks[i].arg].when

\* C14: Deadline honouring.  A Sleep(ctx, d) whose ctx has a deadline earlier than
\* now + d returns the error of the context at the deadline: once the deadline
\* has passed and Run has returned with it, no coroutine is still inside such a
\* Sleep.
SleepReturnsAtDeadline ==
    RunReturned /\ run.ret = "DeadlineExceeded" =>
        \A t \in Tasks : ~SleepsBeyondDeadline(t)

\* The Callbacks of the heap invoked so far.
Fired == {fired[i] : i \in 1..Len(fired)}

\* C15: Cross-thread wake-up.  A callback given to RunCallbackThreadsafe by
\* another thread while Run is executing and the root context is live is moved to
\* the heap and invoked: when Run has returned nil, its context never cancelled,
\* every such callback has been invoked.
ThreadCallbacksInvoked ==
    RunReturned /\ run.ret = "nil" =>
        \A c \in 1..Len(cbk) : cbk[c].kind = "cancelTask" => c \in Fired

\* C16: Loop termination and return value.  Run returns only when its context is
\* cancelled or the root task is done and the heap is empty.  It returns the
\* cancellation cause of its context: nil if the root task completed without error
\* and the context was not cancelled, an error otherwise, which is the error of
\* the root task if that failed and nobody else cancelled the context.
RunReturnValue ==
    [][run.pc # "returned" /\ run'.pc = "returned" =>
          LET root == fut[task[run.main].resultFut]
              c == ctx[run.ctx]
          IN  /\ c.err # "nil" \/ (root.done /\ heap = <<>>)
              /\ run'.ret = c.cause
              /\ root.done /\ root.err = "nil" /\ c.err = "nil" => run'.ret = "nil"
              /\ c.err # "nil" => run'.ret # "nil"
              /\ root.done /\ root.err # "nil" => run'.ret # "nil"
              /\ root.done /\ root.err # "nil" /\ ctx[1].err = "nil" => run'.ret = root.err]_vars

\* C16 witness: Run returned the error with which the root task failed.
RunReturnedRootError ==
    /\ RunReturned
    /\ run.ret = "E1"
    /\ fut[task[run.main].resultFut].err = "E1"
    /\ ctx[1].err = "nil"

\* The Callbacks in the heap, and the timers of Sleep.
Queued(h) == {h[i] : i \in 1..Len(h)}
Timers == {c \in 1..Len(cbk) : cbk[c].kind = "sleepFire"}

\* C17: Cancelling a timed callback.  When the future of a Sleep is cancelled while
\* its timer is queued, the timer is removed from the heap in that step and every
\* other Callback that was queued is still queued or was invoked in that step; a
\* timer whose Sleep was cancelled is never invoked.  Callback.Cancel of a
\* Callback that was invoked or removed returns false and changes nothing.
CancelRemovesTimer ==
    /\ [](\A c \in Timers :
            /\ c \in Fired => fut[cbk[c].arg].done /\ fut[cbk[c].arg].err = "nil"
            /\ fut[cbk[c].arg].done /\ fut[cbk[c].arg].err # "nil" => c \notin Queued(heap)
            /\ c \in Fired \/ cbk[c].index = -1 =>
                  /\ ~CallbackCancelled(S, c)
                  /\ CallbackCancel(S, c) = S)
    /\ [][\A c \in Timers :
            c \in Queued(heap) /\ ~fut[cbk[c].arg].done /\ fut'[cbk[c].arg].err # "nil" =>
                /\ c \notin Queued(heap') /\ c \notin Fired'
                /\ ~cbk'[c].queue
                /\ \A o \in Queued(heap) \ {c} : o \in Queued(heap') \/ o \in Fired']_vars

\* C17 witness: the timer of a cancelled Sleep was removed without being invoked,
\* another timer was invoked after that, and Callbacks are still queued.
TimerRemoved ==
    \E c, o \in Timers :
        /\ cbk[c].index = -1 /\ c \notin Fired /\ fut[cbk[c].arg].err # "nil"
        /\ o \in Fired
        /\ CompletedAt(cbk[c].arg) < CompletedAt(cbk[o].arg)
        /\ heap # <<>>

\* The smallest of a set of numbers.
Least(ns) == CHOOSE n \in ns : \A m \in ns : n <= m

\* C18: Poller timeout.  Whenever Run calls poller.Wait, the timeout it passes is
\* the least of the time until the earliest queued Callback, the time until the
\* deadline of the caller's context and 30 seconds.
PollerTimeout ==
    [][run.pc = "check" /\ run'.pc = "wait" =>
        run'.timeout = Least({HardCap}
                             \cup (IF heap # <<>> THEN {TimeUntilFirst(S)} ELSE {})
                             \cup (IF ctx[1].deadline # 0 THEN {ctx[1].deadline - now}
                                   ELSE {}))]_vars

\* C19: A cancelled task does not suspend again.  No task whose result future is
\* done, which Task.Cancel makes it, is suspended on a future that is pending:
\* the cancellation resumed it from the future it was suspended on, and every
\* Await it makes from then on returns an error without suspending.
CancelledTaskNotSuspended ==
    \A t \in Tasks :
        HasResult(S, task[t].resultFut) =>
            ~(task[t].coro = "susp" /\ task[t].out # 0 /\ ~HasResult(S, task[t].out))

\* C20: Serial task stepping and stack discipline.  Nothing panics: next is never
\* called on a coroutine that is running, and the test of withTask that the
\* stack top is the stepped task never fails, for nested steps too.  Between the
\* callbacks of the loop the current-task stack is what it was before them, empty.
SerialSteps == ~panicked /\ stack = <<>>

\* C20 witness: a task was stepped inside the step of another task, and a task
\* has awaited the result of a task that was done before the coroutine was resumed
\* from the future it was suspended on: the step after that Await was taken
\* inside the step that made it.
NestedStepTaken ==
    /\ depth >= 2 /\ ~panicked /\ stack = <<>>
    /\ \E t \in Tasks, f \in 1..Len(fut) :
         LET i == task[t].pc - 1
         IN  /\ i >= 1 /\ task[t].prog[i].op = "await"
             /\ \E k \in 1..Len(fut[f].callbacks) :
                  fut[f].callbacks[k] = [kind |-> "step", arg |-> t, id |-> 0]
             /\ HasResult(S, f) /\ HasResult(S, task[task[t].prog[i].d].resultFut)
             /\ CompletedAt(task[task[t].prog[i].d].resultFut) < CompletedAt(f)

\* C21: Timed queue order.  RunFirst invokes a Callback whose fire time is the
\* least of those queued, the queue being a binary min-heap by fire time: no
\* Callback is due before its parent.  Every queued Callback is in the heap once,
\* at its index, and the heap holds queued Callbacks only; a Callback that was
\* invoked or removed has index -1, no queue and no place in the heap.
TimedQueueOrder ==
    /\ [](/\ \A i \in 1..Len(heap) :
               /\ cbk[heap[i]].queue /\ cbk[heap[i]].index = i - 1
               /\ i > 1 => cbk[heap[i \div 2]].when <= cbk[heap[i]].when
          /\ \A c \in 1..Len(cbk) :
               /\ cbk[c].queue => /\ cbk[c].index \in 0..(Len(heap) - 1)
                                  /\ heap[cbk[c].index + 1] = c
               /\ c \in Fired \/ cbk[c].index = -1 =>
                      ~cbk[c].queue /\ c \notin Queued(heap))
    /\ [][Len(fired') = Len(fired) + 1 =>
            LET c == Last(fired')
            IN  /\ c \in Queued(heap) /\ ~cbk'[c].queue /\ cbk'[c].index = -1
                /\ \A o \in Queued(heap) : cbk[c].when <= cbk[o].when
                /\ \A o \in Queued(heap) \ {c} : o \in Queued(heap') \/ o \in Fired']_vars

\* C21 witness: after removals from inside the heap and runs of the first
\* Callback, Callbacks with different fire times are still queued.
QueueUsed ==
    /\ \E c \in 1..Len(cbk) : cbk[c].index = -1 /\ c \notin Fired
    /\ Len(fired) >= 2
    /\ cbk[fired[1]].when < cbk[fired[2]].when
    /\ Len(heap) >= 2
    /\ \E i \in 2..Len(heap) : cbk[heap[1]].when < cbk[heap[i]].when

====
